---- MODULE Spec2Model ----
(***************************************************************************)
(* Model of bout-table-stats: bouttablestats.py (BoutStatistics.__init__,  *)
(* pad_bout, make_histogram, percentage_tree, the command line) and the    *)
(* identical row loop of make-histograms.py.                               *)
(*                                                                         *)
(* A Python list is a TLA+ sequence (index i in Python is i + 1 here).     *)
(* A Python dict is a sequence of entries in insertion order, each entry   *)
(* a record with a unique "key" field.  None for max_rows is 0: the code   *)
(* tests "if max_rows and ...", which treats None and 0 alike.             *)
(*                                                                         *)
(* segmented, seg and emitted are history variables: the numbers of the    *)
(* rows that reached the bout loop, the row the bout loop last ran on      *)
(* (its number, its tokens, the phase it started in, whether its loop has  *)
(* ended) and the bouts taken from that row so far, in order.              *)
(***************************************************************************)
EXTENDS Integers, Sequences, FiniteSets

VARIABLES args, pc, rows_read, row, stimuli_bout, n_stimuli_bouts,
          n_pause_bouts, head_rows, raw_stimuli, raw_pauses, boutcsv,
          stimuli_histogram, pause_histogram, stimuli_ptree, pause_ptree,
          boutcsvfile, segmented, seg, emitted, hbouts, root, ptree,
          nb_raw, nb_nomerge, nb_bout, nb_again

vars == <<args, pc, rows_read, row, stimuli_bout, n_stimuli_bouts,
          n_pause_bouts, head_rows, raw_stimuli, raw_pauses, boutcsv,
          stimuli_histogram, pause_histogram, stimuli_ptree, pause_ptree,
          boutcsvfile, segmented, seg, emitted, hbouts, root, ptree,
          nb_raw, nb_nomerge, nb_bout, nb_again>>

(***************************************************************************)
(* Bounds and input domains.                                               *)
(***************************************************************************)
\* Longest row of the input file.
MaxRowLen == 2
\* Most rows the input file holds.
MaxRows == 2
\* Behaviour identifiers of the table cells.
Tokens == {"A", "B"}
\* Longest raw bout handed to the Bout Normalizer on its own.
NormLen == 6
\* Most bouts in a list handed to make_histogram, and their longest.
HistBouts == 3
HistLen == 2
\* Most bouts inserted before percentage_tree is applied.
PctBouts == 6
\* The bouts inserted there: one or two tokens out of three.
PctTokens == {"A", "B", "C"}
\* Command-line values of s and p (positive), offset, --head-rows, --max-rows.
BoutLengths == {1, 2}
Offsets == {0, 1}
HeadRowCounts == {0, 1}
RowLimits == {0, 1, 2}

Min(a, b) == IF a < b THEN a ELSE b
Max(a, b) == IF a > b THEN a ELSE b

SeqsUpTo(S, k) == UNION {[1..m -> S] : m \in 0..k}
Rows == SeqsUpTo(Tokens, MaxRowLen)

RECURSIVE Flatten(_)
Flatten(ss) == IF ss = <<>> THEN <<>> ELSE Head(ss) \o Flatten(Tail(ss))

RECURSIVE SumSeq(_)
SumSeq(ns) == IF ns = <<>> THEN 0 ELSE Head(ns) + SumSeq(Tail(ns))

(***************************************************************************)
(* Python list operations.                                                 *)
(***************************************************************************)
\* row[start:stop] for 0 <= start: the indexes are clamped to the list, so a
\* slice past the end is shorter than stop - start, or empty.
\* Variant of Slice that takes the element at stop as well.
Slice_inclusive(list, start, stop) ==
    SubSeq(list, start + 1, Min(stop + 1, Len(list)))

Slice(list, start, stop) == SubSeq(list, start + 1, Min(stop, Len(list)))

\* Variant of groupby that drops every token seen before, adjacent or not.
RECURSIVE UniqueKeys(_, _, _)
UniqueKeys(list, i, keys) ==
    IF i > Len(list) THEN keys
    ELSE IF \E j \in 1..Len(keys) : keys[j] = list[i]
         THEN UniqueKeys(list, i + 1, keys)
         ELSE UniqueKeys(list, i + 1, Append(keys, list[i]))

groupby_unsorted(raw_bout) == UniqueKeys(raw_bout, 1, <<>>)

\* [k for k, v in groupby(raw_bout)]: groupby opens a new group whenever the
\* element differs from the key of the group being read.
RECURSIVE GroupKeys(_, _, _)
GroupKeys(list, i, keys) ==
    IF i > Len(list) THEN keys
    ELSE IF keys # <<>> /\ keys[Len(keys)] = list[i]
         THEN GroupKeys(list, i + 1, keys)
         ELSE GroupKeys(list, i + 1, Append(keys, list[i]))

groupby(raw_bout) == GroupKeys(raw_bout, 1, <<>>)

\* The Bout Normalizer: line 74 of BoutStatistics.__init__.
Normalize(raw_bout, nomerge) == IF nomerge THEN raw_bout ELSE groupby(raw_bout)

pad_char == "0"

\* Variant of pad_bout that puts the padding in front of the bout.
pad_bout_front(bout, length) ==
    LET ldiff == length - Len(bout)
    IN  IF ldiff > 0 THEN [i \in 1..ldiff |-> pad_char] \o bout ELSE bout

\* pad_bout(bout, length): bout + [pad_char] * ldiff when ldiff > 0.
pad_bout(bout, length) ==
    LET ldiff == length - Len(bout)
    IN  IF ldiff > 0 THEN bout \o [i \in 1..ldiff |-> pad_char] ELSE bout

delim == ";"

\* delim.join(columns): the columns with one delimiter between neighbours.
RECURSIVE join(_)
join(columns) ==
    IF columns = <<>> THEN <<>>
    ELSE IF Len(columns) = 1 THEN columns
    ELSE <<Head(columns), delim>> \o join(Tail(columns))

(***************************************************************************)
(* Python dict operations: a dict is a sequence of entries with distinct   *)
(* keys, in insertion order.                                               *)
(***************************************************************************)
EmptyDict == <<>>

\* Position of key k in dict d, 0 when absent: parent.get(b) is None.
IndexOf(d, k) ==
    IF \E i \in 1..Len(d) : d[i].key = k
    THEN CHOOSE i \in 1..Len(d) : d[i].key = k
    ELSE 0

\* Variant of InsertBout without "parent = node['children']": every token of
\* the bout is counted in the same dict.
RECURSIVE InsertBout_no_descent(_, _, _)
InsertBout_no_descent(parent, bout, i) ==
    IF i > Len(bout) THEN parent
    ELSE LET b == bout[i]
             at == IndexOf(parent, b)
             node == IF at = 0
                     THEN [key |-> b, count |-> 0, children |-> EmptyDict]
                     ELSE parent[at]
             updated == [key |-> b, count |-> node.count + 1,
                         children |-> node.children]
         IN  InsertBout_no_descent(
                 IF at = 0 THEN Append(parent, updated)
                 ELSE [parent EXCEPT ![at] = updated], bout, i + 1)

\* Variant of InsertBout that counts a node when it is created only.
RECURSIVE InsertBout_count_new_only(_, _, _)
InsertBout_count_new_only(parent, bout, i) ==
    IF i > Len(bout) THEN parent
    ELSE LET b == bout[i]
             at == IndexOf(parent, b)
             node == IF at = 0
                     THEN [key |-> b, count |-> 1, children |-> EmptyDict]
                     ELSE parent[at]
             updated == [key |-> b,
                         count |-> node.count,
                         children |-> InsertBout_count_new_only(
                                          node.children, bout, i + 1)]
         IN  IF at = 0 THEN Append(parent, updated)
             ELSE [parent EXCEPT ![at] = updated]

\* One pass of the inner loop "for b in bout" of make_histogram, from token i
\* on, with parent the dict reached so far; the result is parent as updated.
RECURSIVE InsertBout(_, _, _)
InsertBout(parent, bout, i) ==
    IF i > Len(bout) THEN parent
    ELSE LET b == bout[i]
             at == IndexOf(parent, b)
             node == IF at = 0
                     THEN [key |-> b, count |-> 0, children |-> EmptyDict]
                     ELSE parent[at]
             updated == [key |-> b,
                         count |-> node.count + 1,
                         children |-> InsertBout(node.children, bout, i + 1)]
         IN  IF at = 0 THEN Append(parent, updated)
             ELSE [parent EXCEPT ![at] = updated]

\* make_histogram(bouts): the outer loop "for bout in bouts" from bout i on.
RECURSIVE HistogramFrom(_, _, _)
HistogramFrom(dict, bouts, i) ==
    IF i > Len(bouts) THEN dict
    ELSE HistogramFrom(InsertBout(dict, bouts[i], 1), bouts, i + 1)

make_histogram(bouts) == HistogramFrom(EmptyDict, bouts, 1)

(***************************************************************************)
(* Python floats.  "count / total" is true division: the IEEE 754 double   *)
(* nearest the quotient (round to nearest, ties to even), and "+" on two   *)
(* floats is their sum rounded the same way.  A value below 2 is held in   *)
(* fixed point as i + a / 2^26 + b / 2^52 + c / 2^78 with a, b, c below    *)
(* 2^26; a double of at least 2^-25 has its 53 significant bits inside     *)
(* these 78 fraction bits, so such doubles are held exactly.  The limbs    *)
(* keep every intermediate below 2^31 for divisors below 32.               *)
(***************************************************************************)
Limb == 2 ^ 26

Log2(q) == CHOOSE j \in 0..25 : 2 ^ j <= q /\ q < 2 ^ (j + 1)

\* Carries propagated from the low limb up.
Carry(i, a, b, c) ==
    LET b1 == b + (c \div Limb)
        a1 == a + (b1 \div Limb)
    IN  [i |-> i + (a1 \div Limb), a |-> a1 % Limb, b |-> b1 % Limb,
         c |-> c % Limb]

\* x rounded to 53 significant bits; sticky says that the exact value lies
\* strictly above x (bits were lost below 2^-78).
RoundDouble(x, sticky) ==
    IF x.i = 0 /\ x.a = 0 THEN x
    ELSE LET d == IF x.i >= 1 THEN 26 ELSE Log2(x.a)
             low == x.c % (2 ^ d)
             half == 2 ^ (d - 1)
             lastKept == IF d = 26 THEN x.b % 2 ELSE (x.c \div (2 ^ d)) % 2
             up == \/ low > half
                   \/ low = half /\ (sticky \/ lastKept = 1)
         IN  Carry(x.i, x.a, x.b, x.c - low + (IF up THEN 2 ^ d ELSE 0))

\* What a division by zero leaves in place of a float: the exception.
ZeroDivisionError == [raised |-> "ZeroDivisionError"]

\* count // total: what "/" on two ints gives under Python 2.
FloorDiv(count, total) ==
    IF total = 0 THEN ZeroDivisionError
    ELSE [i |-> count \div total, a |-> 0, b |-> 0, c |-> 0]

\* count / total for ints 0 <= count, 0 <= total < 32: three rounds of long
\* division give the 78 fraction bits, the remainder the sticky bit.
TrueDiv(count, total) ==
    IF total = 0 THEN ZeroDivisionError
    ELSE LET r0 == count % total
             r1 == (r0 * Limb) % total
             r2 == (r1 * Limb) % total
             r3 == (r2 * Limb) % total
         IN  RoundDouble([i |-> count \div total,
                          a |-> (r0 * Limb) \div total,
                          b |-> (r1 * Limb) \div total,
                          c |-> (r2 * Limb) \div total], r3 # 0)

(***************************************************************************)
(* percentage_tree(histogram).                                             *)
(***************************************************************************)
\* total = 0; for e, p in nodes.items(): total += p['count']
RECURSIVE LevelTotal(_, _)
LevelTotal(nodes, i) ==
    IF i > Len(nodes) THEN 0 ELSE nodes[i].count + LevelTotal(nodes, i + 1)

RECURSIVE walk(_)
walk(nodes) ==
    LET total == LevelTotal(nodes, 1)
    IN  [i \in 1..Len(nodes) |->
            [key |-> nodes[i].key,
             percent |-> TrueDiv(nodes[i].count, total),
             count |-> nodes[i].count,
             children |-> IF nodes[i].children # EmptyDict
                          THEN walk(nodes[i].children)
                          ELSE EmptyDict]]

percentage_tree(histogram) == walk(histogram)

(***************************************************************************)
(* The command line of bouttablestats.py and BoutStatistics.__init__.      *)
(***************************************************************************)
\* What parse_args can return: bout_file is TRUE when -bf names a file.
Args == [s : BoutLengths, p : BoutLengths, offset : Offsets,
         stimuli_first : BOOLEAN, no_merge : BOOLEAN,
         head_rows : HeadRowCounts, max_rows : RowLimits,
         bout_file : BOOLEAN]

\* The keyword arguments BoutStatistics is constructed with by __main__.
CallArgs(a) ==
    [s |-> a.s, p |-> a.p, offset |-> a.offset,
     begin_with_stimuli |-> ~a.stimuli_first,
     nheadrows |-> a.head_rows, nomerge |-> a.no_merge,
     max_rows |-> a.max_rows, bout_file |-> a.bout_file]

kw == CallArgs(args)

NotRun == <<"not run">>
NoRow == [n |-> -1, row |-> <<>>, phase |-> FALSE, done |-> FALSE]

\* Values of the variables of the other specifications of this module.
IdleHist == hbouts = <<>> /\ root = EmptyDict /\ ptree = EmptyDict
IdleNorm ==
    nb_raw = <<>> /\ nb_nomerge = FALSE /\ nb_bout = <<>> /\ nb_again = <<>>
IdleMain ==
    /\ args = CHOOSE a \in Args : TRUE
    /\ rows_read = 0 /\ row = <<>> /\ stimuli_bout = FALSE
    /\ n_stimuli_bouts = 0 /\ n_pause_bouts = 0
    /\ head_rows = <<>> /\ raw_stimuli = <<>> /\ raw_pauses = <<>>
    /\ boutcsv = <<>> /\ boutcsvfile = NotRun
    /\ stimuli_histogram = EmptyDict /\ pause_histogram = EmptyDict
    /\ stimuli_ptree = EmptyDict /\ pause_ptree = EmptyDict
    /\ segmented = {} /\ seg = NoRow /\ emitted = <<>>

histVars == <<hbouts, root, ptree>>
normVars == <<nb_raw, nb_nomerge, nb_bout, nb_again>>
mainVars == <<args, rows_read, row, stimuli_bout, n_stimuli_bouts,
              n_pause_bouts, head_rows, raw_stimuli, raw_pauses, boutcsv,
              stimuli_histogram, pause_histogram, stimuli_ptree, pause_ptree,
              boutcsvfile, segmented, seg, emitted>>

\* The state on entering "for n, row in enumerate(linereader)".
Init ==
    /\ args \in Args
    /\ pc = "rows"
    /\ rows_read = 0
    /\ row = <<>>
    /\ stimuli_bout = kw.begin_with_stimuli
    /\ n_stimuli_bouts = 0
    /\ n_pause_bouts = 0
    /\ head_rows = <<>>
    /\ raw_stimuli = <<>>
    /\ raw_pauses = <<>>
    /\ boutcsv = <<>>
    /\ boutcsvfile = NotRun
    /\ stimuli_histogram = EmptyDict
    /\ pause_histogram = EmptyDict
    /\ stimuli_ptree = EmptyDict
    /\ pause_ptree = EmptyDict
    /\ segmented = {}
    /\ seg = NoRow
    /\ emitted = <<>>
    /\ IdleHist
    /\ IdleNorm

\* The reader yields row r as row number n = rows_read: the head of one
\* iteration of the row loop, up to the inner "while True".
ReadRow(r) ==
    LET n == rows_read
    IN  /\ pc = "rows"
        /\ rows_read < MaxRows
        /\ rows_read' = n + 1
        /\ row' = r
        /\ IF n < kw.nheadrows
           THEN /\ head_rows' = Append(head_rows, r)
                /\ UNCHANGED <<pc, boutcsv, n_stimuli_bouts, n_pause_bouts,
                               segmented, seg, emitted>>
           ELSE IF kw.max_rows # 0 /\ n + kw.nheadrows >= kw.max_rows
           THEN /\ pc' = "finish"
                /\ UNCHANGED <<head_rows, boutcsv, n_stimuli_bouts,
                               n_pause_bouts, segmented, seg, emitted>>
           ELSE /\ pc' = "bouts"
                /\ boutcsv' = IF kw.bout_file THEN Append(boutcsv, <<>>)
                              ELSE boutcsv
                /\ n_stimuli_bouts' = 0
                /\ n_pause_bouts' = 0
                /\ segmented' = segmented \cup {n}
                /\ seg' = [n |-> n, row |-> r, phase |-> stimuli_bout,
                           done |-> FALSE]
                /\ emitted' = <<>>
                /\ UNCHANGED head_rows
        /\ UNCHANGED <<args, stimuli_bout, raw_stimuli, raw_pauses,
                       stimuli_histogram, pause_histogram, stimuli_ptree,
                       pause_ptree, boutcsvfile>>
        /\ UNCHANGED <<histVars, normVars>>

\* The reader is exhausted: the row loop ends.
EndOfFile ==
    /\ pc = "rows"
    /\ pc' = "finish"
    /\ UNCHANGED <<mainVars, histVars, normVars>>

\* start = offset + s * n_stimuli_bouts + p * n_pause_bouts
start_of(offset, s, p, n_stimuli, n_pause) ==
    offset + s * n_stimuli + p * n_pause

\* Variant of exhausted that stops on an empty slice only.
exhausted_when_empty(length, raw_bout) == Len(raw_bout) = 0

\* "if length != len(raw_bout): break": the row cannot fill the next bout.
exhausted(length, raw_bout) == length # Len(raw_bout)

\* One iteration of "while True" on the current row.
BoutStep ==
    LET start == start_of(kw.offset, kw.s, kw.p, n_stimuli_bouts,
                          n_pause_bouts)
        length == IF stimuli_bout THEN kw.s ELSE kw.p
        raw_bout == Slice(row, start, start + length)
        bout == Normalize(raw_bout, kw.nomerge)
        bout_copy == IF kw.nomerge THEN bout ELSE pad_bout(bout, length)
    IN  /\ pc = "bouts"
        /\ IF exhausted(length, raw_bout)
           THEN /\ pc' = "rows"
                /\ seg' = [seg EXCEPT !.done = TRUE]
                /\ UNCHANGED <<stimuli_bout, n_stimuli_bouts, n_pause_bouts,
                               raw_stimuli, raw_pauses, boutcsv, emitted>>
           ELSE /\ IF stimuli_bout
                   THEN /\ raw_stimuli' = Append(raw_stimuli, bout)
                        /\ n_stimuli_bouts' = n_stimuli_bouts + 1
                        /\ UNCHANGED <<raw_pauses, n_pause_bouts>>
                   ELSE /\ raw_pauses' = Append(raw_pauses, bout)
                        /\ n_pause_bouts' = n_pause_bouts + 1
                        /\ UNCHANGED <<raw_stimuli, n_stimuli_bouts>>
                /\ boutcsv' = IF kw.bout_file
                              THEN [boutcsv EXCEPT ![Len(boutcsv)] =
                                        Append(@, bout_copy)]
                              ELSE boutcsv
                /\ stimuli_bout' = ~stimuli_bout
                /\ emitted' = Append(emitted,
                                     [alias |-> IF stimuli_bout THEN "S" ELSE "P",
                                      start |-> start, length |-> length,
                                      raw_bout |-> raw_bout, bout |-> bout])
                /\ UNCHANGED <<pc, seg>>
        /\ UNCHANGED <<args, rows_read, row, head_rows, stimuli_histogram,
                       pause_histogram, stimuli_ptree, pause_ptree,
                       boutcsvfile, segmented>>
        /\ UNCHANGED <<histVars, normVars>>

\* After the row loop: the two histograms, their percentage trees and, when
\* asked for, the bout file (one line per segmented row).
Finish ==
    /\ pc = "finish"
    /\ pc' = "done"
    /\ stimuli_histogram' = make_histogram(raw_stimuli)
    /\ pause_histogram' = make_histogram(raw_pauses)
    /\ stimuli_ptree' = percentage_tree(make_histogram(raw_stimuli))
    /\ pause_ptree' = percentage_tree(make_histogram(raw_pauses))
    /\ boutcsvfile' = IF kw.bout_file
                      THEN [i \in 1..Len(boutcsv) |-> join(Flatten(boutcsv[i]))]
                      ELSE NotRun
    /\ UNCHANGED <<args, rows_read, row, stimuli_bout, n_stimuli_bouts,
                   n_pause_bouts, head_rows, raw_stimuli, raw_pauses, boutcsv,
                   segmented, seg, emitted>>
    /\ UNCHANGED <<histVars, normVars>>

Next ==
    \/ \E r \in Rows : ReadRow(r)
    \/ EndOfFile
    \/ BoutStep
    \/ Finish

Spec == Init /\ [][Next]_vars

(***************************************************************************)
(* The Bout Normalizer on its own: a raw bout, normalized, and the result  *)
(* normalized again.                                                       *)
(***************************************************************************)
InitNorm ==
    /\ pc = "norm"
    /\ nb_raw \in SeqsUpTo(Tokens, NormLen)
    /\ nb_nomerge \in BOOLEAN
    /\ nb_bout = <<>>
    /\ nb_again = <<>>
    /\ IdleMain
    /\ IdleHist

NormalizeBout ==
    /\ pc = "norm"
    /\ pc' = "normalized"
    /\ nb_bout' = Normalize(nb_raw, nb_nomerge)
    /\ UNCHANGED <<nb_raw, nb_nomerge, nb_again, mainVars, histVars>>

NormalizeAgain ==
    /\ pc = "normalized"
    /\ pc' = "renormalized"
    /\ nb_again' = Normalize(nb_bout, nb_nomerge)
    /\ UNCHANGED <<nb_raw, nb_nomerge, nb_bout, mainVars, histVars>>

NextNorm == NormalizeBout \/ NormalizeAgain

SpecNorm == InitNorm /\ [][NextNorm]_vars

(***************************************************************************)
(* make_histogram and percentage_tree on any list of bouts of one type.    *)
(***************************************************************************)
InitHist ==
    /\ pc = "hist"
    /\ hbouts \in SeqsUpTo(SeqsUpTo(Tokens, HistLen), HistBouts)
    /\ root = EmptyDict
    /\ ptree = EmptyDict
    /\ IdleMain
    /\ IdleNorm

MakeHistogram ==
    /\ pc = "hist"
    /\ pc' = "counted"
    /\ root' = make_histogram(hbouts)
    /\ UNCHANGED <<hbouts, ptree, mainVars, normVars>>

Annotate ==
    /\ pc = "counted"
    /\ pc' = "annotated"
    /\ ptree' = percentage_tree(root)
    /\ UNCHANGED <<hbouts, root, mainVars, normVars>>

NextHist == MakeHistogram \/ Annotate

SpecHist == InitHist /\ [][NextHist]_vars

(***************************************************************************)
(* The same two functions with the bouts handed over one at a time: each   *)
(* InsertOne is one iteration of "for bout in bouts".                      *)
(***************************************************************************)
PctBoutSet == SeqsUpTo(PctTokens, 2) \ {<<>>}

InitPct ==
    /\ pc = "insert"
    /\ hbouts = <<>>
    /\ root = EmptyDict
    /\ ptree = EmptyDict
    /\ IdleMain
    /\ IdleNorm

InsertOne(bout) ==
    /\ pc = "insert"
    /\ LevelTotal(root, 1) < PctBouts
    /\ root' = InsertBout(root, bout, 1)
    /\ UNCHANGED <<pc, hbouts, ptree, mainVars, normVars>>

AnnotateInserted ==
    /\ pc = "insert"
    /\ pc' = "annotated"
    /\ ptree' = percentage_tree(root)
    /\ UNCHANGED <<hbouts, root, mainVars, normVars>>

NextPct == (\E bout \in PctBoutSet : InsertOne(bout)) \/ AnnotateInserted

SpecPct == InitPct /\ [][NextPct]_vars

(***************************************************************************)
(* Properties of the row loop (specification Spec).                        *)
(***************************************************************************)
Alias(begin) == IF begin THEN "S" ELSE "P"
Declared(alias) == IF alias = "S" THEN kw.s ELSE kw.p
EmittedBouts == [k \in 1..Len(emitted) |-> emitted[k].bout]
\* Tokens of the row the emitted bouts were cut from.
Consumed == SumSeq([k \in 1..Len(emitted) |-> Len(emitted[k].raw_bout)])

\* C1: in every data row the first bout is of the configured starting phase
\* (stimulus when begin_with_stimuli, pause otherwise) and the phases
\* alternate within the row, whatever phase the preceding row stopped in.
CE_C1_EveryRowStartsInConfiguredPhase ==
    emitted # <<>> =>
        /\ emitted[1].alias = Alias(kw.begin_with_stimuli)
        /\ \A k \in 1..(Len(emitted) - 1) :
               emitted[k].alias # emitted[k + 1].alias

\* C2: with merging disabled the bouts taken from a row, concatenated, are
\* the row from offset on without gap or overlap, each bout (as taken and as
\* collected in raw_stimuli and raw_pauses) has the length of its type, and
\* the loop stops only when the row has fewer tokens left than the next bout
\* needs.
C2_BoutsTileTheRow ==
    (kw.nomerge /\ seg.n >= 0) =>
        /\ \A k \in 1..Len(emitted) :
               Len(emitted[k].bout) = Declared(emitted[k].alias)
        /\ kw.offset + Consumed <= Len(seg.row) \/ emitted = <<>>
        /\ Flatten(EmittedBouts)
               = SubSeq(seg.row, kw.offset + 1, kw.offset + Consumed)
        /\ \A k \in 1..Len(raw_stimuli) : Len(raw_stimuli[k]) = kw.s
        /\ \A k \in 1..Len(raw_pauses) : Len(raw_pauses[k]) = kw.p
        /\ seg.done =>
               Len(seg.row) - (kw.offset + Consumed)
                   < Declared(Alias(stimuli_bout))

W_C2_SeveralBoutsTiled ==
    /\ kw.nomerge
    /\ seg.done
    /\ Len(emitted) >= 2
    /\ kw.offset + Consumed = Len(seg.row)

\* C6: when the bout file is asked for, every bout copied for it has the
\* declared length of its type, starts with the bout's own tokens and is
\* filled up with "0"; a bout of at least the length asked for is returned
\* by pad_bout as it is; and every line written has as many columns as the
\* row's full bouts consumed tokens.
ColumnCount(line) ==
    IF line = <<>> THEN 0
    ELSE 1 + Cardinality({j \in 1..Len(line) : j % 2 = 0 /\ line[j] = delim})

C6_ExportedBoutsHaveDeclaredLength ==
    /\ (kw.bout_file /\ seg.n >= 0) =>
         LET copies == boutcsv[Len(boutcsv)]
         IN  /\ Len(boutcsv) = Cardinality(segmented)
             /\ Len(copies) = Len(emitted)
             /\ \A k \in 1..Len(emitted) :
                  LET e == emitted[k]
                  IN  /\ Len(copies[k]) = Declared(e.alias)
                      /\ Len(e.bout) <= Declared(e.alias)
                      /\ SubSeq(copies[k], 1, Len(e.bout)) = e.bout
                      /\ \A j \in (Len(e.bout) + 1)..Declared(e.alias) :
                             copies[k][j] = "0"
             /\ Len(Flatten(copies)) = Consumed
             /\ Consumed = kw.s * n_stimuli_bouts + kw.p * n_pause_bouts
    /\ (kw.bout_file /\ pc = "done") =>
         /\ Len(boutcsvfile) = Cardinality(segmented)
         /\ \A i \in 1..Len(boutcsv) :
                ColumnCount(boutcsvfile[i]) = Len(Flatten(boutcsv[i]))
    /\ (~kw.bout_file) => boutcsv = <<>> /\ boutcsvfile = NotRun
    /\ pc = "done" =>
         \A b \in Rows : \A length \in 0..Len(b) : pad_bout(b, length) = b

W_C6_MergedBoutPadded ==
    /\ pc = "done"
    /\ kw.bout_file
    /\ ~kw.nomerge
    /\ \E k \in 1..Len(emitted) :
           /\ Len(emitted[k].bout) < Declared(emitted[k].alias)
           /\ boutcsv[Len(boutcsv)][k] = emitted[k].bout \o <<"0">>
    /\ \E i \in 1..Len(boutcsvfile) : ColumnCount(boutcsvfile[i]) >= 2

\* C7: with -sf/--stimuli-first the first bout of the first data row is a
\* stimulus bout, without the flag it is a pause bout.
CE_C7_FlagGivesStartingPhase ==
    (Cardinality(segmented) = 1 /\ emitted # <<>>) =>
        emitted[1].alias = Alias(args.stimuli_first)

\* C8: every iteration of the bout loop either ends the loop or takes one
\* more bout, and a row never gives more than
\* floor(max(0, len(row) - offset) / min(s, p)) bouts (none when
\* len(row) <= offset): the loop ends after at most that many bouts.
MostBouts == Max(0, Len(seg.row) - kw.offset) \div Min(kw.s, kw.p)

C8_BoutLoopTerminates ==
    [][pc = "bouts" =>
         \/ pc' = "rows" /\ seg'.done /\ emitted' = emitted
         \/ /\ pc' = "bouts"
            /\ Len(emitted') = Len(emitted) + 1
            /\ Len(emitted') <= MostBouts]_vars

W_C8_MostBoutsTaken ==
    /\ seg.done
    /\ MostBouts >= 2
    /\ Len(emitted) = MostBouts

\* C9: with a row limit m > 0 the rows segmented are exactly those numbered
\* nheadrows <= n < m that the file holds.
CE_C9_FirstMRowsAreRead ==
    (kw.max_rows > 0 /\ pc \in {"finish", "done"}) =>
        segmented = {n \in 0..(rows_read - 1) :
                         kw.nheadrows <= n /\ n < kw.max_rows}

(***************************************************************************)
(* Properties of the Bout Normalizer (specification SpecNorm).             *)
(***************************************************************************)
\* Where the maximal runs of equal adjacent tokens start, and their tokens.
RunStarts(raw) == {i \in 1..Len(raw) : i = 1 \/ raw[i] # raw[i - 1]}

Runs(raw) ==
    [k \in 1..Cardinality(RunStarts(raw)) |->
        raw[CHOOSE i \in RunStarts(raw) :
                Cardinality({j \in RunStarts(raw) : j <= i}) = k]]

\* C5: with merging the normalized bout holds one token per maximal run of
\* equal adjacent tokens, in run order, has no two equal neighbours and is
\* non-empty when the raw bout is; normalizing it again changes nothing;
\* without merging the raw bout is returned as it is.
C5_NormalizerCollapsesRuns ==
    /\ pc \in {"normalized", "renormalized"} =>
         IF nb_nomerge THEN nb_bout = nb_raw
         ELSE /\ nb_bout = Runs(nb_raw)
              /\ \A i \in 1..(Len(nb_bout) - 1) : nb_bout[i] # nb_bout[i + 1]
              /\ nb_raw # <<>> => nb_bout # <<>>
    /\ pc = "renormalized" => nb_again = nb_bout

W_C5_RunsCollapsed ==
    /\ pc = "renormalized"
    /\ ~nb_nomerge
    /\ nb_raw = <<"A", "A", "B", "B", "B", "A">>
    /\ nb_bout = <<"A", "B", "A">>
    /\ nb_again = <<"A", "B", "A">>

(***************************************************************************)
(* Properties of make_histogram (specification SpecHist).                  *)
(***************************************************************************)
IsPrefix(path, bout) ==
    Len(path) <= Len(bout) /\ SubSeq(bout, 1, Len(path)) = path

Absent == [key |-> "absent", count |-> 0, children |-> <<>>]

\* The node at a non-empty path, Absent when there is none.
RECURSIVE Lookup(_, _)
Lookup(dict, path) ==
    IF \A i \in 1..Len(dict) : dict[i].key # Head(path) THEN Absent
    ELSE LET node == dict[CHOOSE i \in 1..Len(dict) : dict[i].key = Head(path)]
         IN  IF Len(path) = 1 THEN node ELSE Lookup(node.children, Tail(path))

\* Every dict of the tree has distinct keys.
RECURSIVE DistinctKeys(_)
DistinctKeys(dict) ==
    \A i \in 1..Len(dict) :
        /\ \A j \in 1..Len(dict) : dict[i].key = dict[j].key => i = j
        /\ DistinctKeys(dict[i].children)

\* C3: a node exists at path (t1,...,tk) exactly when some bout has that
\* path as a prefix, and its count is the number of bouts of the list, with
\* multiplicity, that have it as a prefix.
C3_TrieCountsPrefixes ==
    pc \in {"counted", "annotated"} =>
        /\ DistinctKeys(root)
        /\ \A path \in SeqsUpTo(Tokens, HistLen + 1) \ {<<>>} :
               LET n == Cardinality({k \in 1..Len(hbouts) :
                                         IsPrefix(path, hbouts[k])})
               IN  IF n = 0 THEN Lookup(root, path) = Absent
                   ELSE /\ Lookup(root, path) # Absent
                        /\ Lookup(root, path).count = n

W_C3_SharedPrefixCounted ==
    /\ pc = "counted"
    /\ hbouts = << <<"A", "B">>, <<"A", "A">> >>
    /\ root = << [key |-> "A", count |-> 2, children |->
                    << [key |-> "B", count |-> 1, children |-> <<>>],
                       [key |-> "A", count |-> 1, children |-> <<>>] >>] >>

\* C10: in a histogram every node has count >= 1 and count >= the sum of
\* its children's counts, the root children's counts add up to the number
\* of non-empty bouts inserted, when all bouts have the same length (as they
\* do with merging disabled) a node that has children has exactly the sum
\* of their counts, and a node counts more than its children together only
\* when some bout ends at it.
ChildSum(dict) == SumSeq([i \in 1..Len(dict) |-> dict[i].count])

RECURSIVE NodesOK(_, _, _, _)
NodesOK(dict, path, bouts, exact) ==
    \A i \in 1..Len(dict) :
        LET here == Append(path, dict[i].key)
            below == ChildSum(dict[i].children)
        IN  /\ dict[i].count >= 1
            /\ dict[i].count >= below
            /\ (exact /\ dict[i].children # <<>>) => dict[i].count = below
            /\ dict[i].count > below =>
                   \E k \in 1..Len(bouts) : bouts[k] = here
            /\ NodesOK(dict[i].children, here, bouts, exact)

SameLength(bouts) ==
    \A j, k \in 1..Len(bouts) : Len(bouts[j]) = Len(bouts[k])

C10_CountsDominateChildren ==
    pc \in {"counted", "annotated"} =>
        /\ NodesOK(root, <<>>, hbouts, SameLength(hbouts))
        /\ ChildSum(root)
               = Cardinality({k \in 1..Len(hbouts) : hbouts[k] # <<>>})

W_C10_BoutEndsAtInnerNode ==
    /\ pc = "counted"
    /\ \E k \in 1..Len(hbouts) : hbouts[k] = <<>>
    /\ \E i \in 1..Len(root) :
           /\ root[i].children # <<>>
           /\ root[i].count > ChildSum(root[i].children)

(***************************************************************************)
(* Properties of percentage_tree (specification SpecPct).                  *)
(***************************************************************************)
\* x + y on floats: the exact sum, rounded.
FloatAdd(x, y) ==
    RoundDouble(Carry(x.i + y.i, x.a + y.a, x.b + y.b, x.c + y.c), FALSE)

FloatZero == [i |-> 0, a |-> 0, b |-> 0, c |-> 0]
FloatOne == [i |-> 1, a |-> 0, b |-> 0, c |-> 0]

\* sum(p['percent'] for p in level.values()), in the dict's order.
RECURSIVE FloatSumFrom(_, _, _)
FloatSumFrom(level, i, acc) ==
    IF i > Len(level) THEN acc
    ELSE FloatSumFrom(level, i + 1, FloatAdd(acc, level[i].percent))

FloatSum(level) == FloatSumFrom(level, 1, FloatZero)

\* x * k exactly, for a float x <= 1 and an int 0 <= k < 32.
Times(x, k) == Carry(x.i * k, x.a * k, x.b * k, x.c * k)

\* |x - k| <= tol / 2^78, for an int k and 0 <= tol < 2^29.
Close(x, k, tol) ==
    \/ /\ x.i = k /\ x.a = 0 /\ x.b < 8
       /\ x.b * Limb + x.c <= tol
    \/ /\ x.i = k - 1 /\ x.a = Limb - 1 /\ x.b >= Limb - 8
       /\ (Limb - 1 - x.b) * Limb + (Limb - x.c) <= tol

\* level is the annotation of nodes: same keys and counts in the same
\* order, every percent the double nearest count / T with T the sum of the
\* counts of the node and its siblings (|percent * T - count| <= T / 2^54),
\* T > 0, and the percents of the level adding up to 1: exactly, or to
\* within 2^-52 per sibling.
RECURSIVE LevelOK(_, _, _)
LevelOK(level, nodes, exactly) ==
    LET T == ChildSum(nodes)
    IN  /\ Len(level) = Len(nodes)
        /\ nodes # <<>> => T > 0
        /\ \A i \in 1..Len(nodes) :
               /\ level[i].key = nodes[i].key
               /\ level[i].count = nodes[i].count
               /\ level[i].percent # ZeroDivisionError
               /\ Close(Times(level[i].percent, T), nodes[i].count,
                        T * (2 ^ 24))
               /\ LevelOK(level[i].children, nodes[i].children, exactly)
        /\ nodes # <<>> =>
               IF exactly THEN FloatSum(level) = FloatOne
               ELSE Close(FloatSum(level), 1, Len(level) * Limb)

\* C4 as claimed: percent = count / T with T the sum of the sibling counts,
\* T > 0 wherever there is a node, an empty root gives an empty tree, and
\* the percents of all siblings under one parent sum to exactly 1.
CE_C4_SiblingPercentsSumToExactlyOne ==
    pc = "annotated" => LevelOK(ptree, root, TRUE)

\* C4 as amended: the same, with the sibling percents (floats) summing to 1
\* to within 2^-52 per sibling, and the sibling counts to exactly T.
C4_SiblingPercentsSumToOneRounded ==
    pc = "annotated" => LevelOK(ptree, root, FALSE)

W_C4_RoundedSumBelowOne ==
    /\ pc = "annotated"
    /\ FloatSum(ptree) # FloatOne
    /\ \E i \in 1..Len(ptree) :
           /\ Len(ptree[i].children) >= 2
           /\ ptree[i].count > ChildSum(ptree[i].children)
           /\ ptree[i].count < ChildSum(ptree)

====
